---- MODULE Spec2Model ----
(***************************************************************************)
(* Model of the generation-and-reconciliation core of convex/functions.ts: *)
(* the prompt and clip tables, the registry of scheduled functions, the    *)
(* submission action, the arm mutation and the self-rescheduling poll      *)
(* action, one step per transaction or external call of each handler.      *)
(***************************************************************************)
EXTENDS Integers, Sequences, FiniteSets, Bags, TLC

VARIABLES
  suno_prompts,   \* table suno_prompts, in insertion order
  suno_clips,     \* table suno_clips, in insertion order
  tasks,          \* system table _scheduled_functions, a bag of task records
  genOutcome,     \* what the latest generateSunoAudio call returned to its caller
  sinceFeed       \* time since the latest feed request, in ms, counted up to PollInterval

vars == <<suno_prompts, suno_clips, tasks, genOutcome, sinceFeed>>

(***************************************************************************)
(* Bounds of the model.                                                    *)
(***************************************************************************)
MaxRows == 2        \* rows of suno_clips in one behaviour
MaxReports == 2     \* clip reports in one feed response
MaxRunning == 2     \* scheduled actions the platform executes at once
BulkRows == 12      \* clip ids in the one response of the large-batch scenario
TicksPerInterval == 2   \* clock ticks that make up one poll interval

(***************************************************************************)
(* Program constants.                                                      *)
(***************************************************************************)
BatchLimit == 10        \* .take(10)
PollInterval == 10000   \* runAfter(10000, pollSunoClips)
ArmDelay == 0           \* runAfter(0, ...)

(***************************************************************************)
(* Value domains.                                                          *)
(***************************************************************************)
sunoStatus == {"submitted", "queued", "streaming", "complete", "error"}
ReportStatuses == {"queued", "complete", "error"}
ClipIds == {"c1", "c2"}
\* the prompt ids the provider assigns, in the order it assigns them
PromptIds == <<"p1", "p2">>
Titles == {"t1"}
Payloads == {[prompt |-> "lofi beats", mv |-> "chirp-v3-5"]}

\* the clip objects (sunoGeneratedClip) the provider sends in a feed response,
\* reduced to the fields the core reads plus one payload field
Reports == [id : ClipIds, status : ReportStatuses, title : Titles]

RECURSIVE SeqsUpTo(_, _)
SeqsUpTo(S, n) ==
  IF n = 0 THEN {<<>>}
  ELSE LET shorter == SeqsUpTo(S, n - 1)
       IN  shorter \cup {Append(s, x) : s \in {q \in shorter : Len(q) = n - 1}, x \in S}

\* Responses of POST /api/generate/v2/: kind "network_error" makes fetch or
\* res.json() throw; otherwise hasId / hasClips say whether json.id and
\* json.clips are present.
GenerateResponses(promptId, maxClips) ==
  [kind : {"network_error"}, hasId : {FALSE}, hasClips : {FALSE},
   id : {promptId}, clips : {<<>>}]
  \cup
  [kind : {"json"}, hasId : BOOLEAN, hasClips : {FALSE},
   id : {promptId}, clips : {<<>>}]
  \cup
  [kind : {"json"}, hasId : BOOLEAN, hasClips : {TRUE},
   id : {promptId}, clips : SeqsUpTo(ClipIds, maxClips)]

\* Responses of GET /api/feed/v2/: same convention, hasClips says whether
\* clipData.clips is present and len is its length. The elements of
\* clipData.clips are the provider's free choice and the handler reads them
\* one at a time, so each is drawn when the loop reaches it (PollUpdate).
FeedResponses ==
  [kind : {"network_error"}, hasClips : {FALSE}, len : {0}]
  \cup
  [kind : {"json"}, hasClips : {FALSE}, len : {0}]
  \cup
  [kind : {"json"}, hasClips : {TRUE}, len : 0..MaxReports]

\* the clip ids of the large-batch scenario: one response with BulkRows ids
BulkClips == [k \in 1..BulkRows |-> "b" \o ToString(k)]
BulkClipIds == {BulkClips[k] : k \in 1..BulkRows}

\* per clip id, the latest element of clipData.clips the loop has read for it
NoneReported == [c \in ClipIds \cup BulkClipIds |-> <<>>]

(***************************************************************************)
(* The registry of scheduled functions.                                    *)
(***************************************************************************)
NoFeed == [kind |-> "none", hasClips |-> FALSE, len |-> 0]

\* a task as runAfter(delay, name) inserts it
NewTask(name, delay) ==
  [name |-> name, state |-> "pending", delay |-> delay, pc |-> "start",
   clipsToUpdate |-> <<>>, clipData |-> NoFeed, i |-> 1,
   reported |-> NoneReported, requests |-> 0, error |-> "none"]

\* a running action whose handler has returned or thrown: its frame is gone,
\* what is left is the outcome and the number of feed requests it issued
Ended(t, pc, error) ==
  [t EXCEPT !.pc = pc, !.error = error,
            !.clipsToUpdate = <<>>, !.clipData = NoFeed, !.i = 1,
            !.reported = NoneReported]

\* a task after the platform recorded its completion (completedTime is set)
Completed(t) ==
  [name |-> t.name, state |-> "completed", delay |-> 0, pc |-> "end",
   clipsToUpdate |-> <<>>, clipData |-> NoFeed, i |-> 1,
   reported |-> NoneReported, requests |-> 0, error |-> "none"]

completedTime(t) == t.state = "completed"

Put(bag, t) == bag (+) SetToBag({t})
Take(bag, t) == bag (-) SetToBag({t})

\* The registry keeps one record per name of completed task: the code only
\* asks whether some task is uncompleted, never how many have completed.
Finish(bag, t) ==
  LET done == Completed(t)
      rest == Take(bag, t)
  IN  IF BagIn(done, rest) THEN rest ELSE Put(rest, done)

Running(bag) == {t \in BagToSet(bag) : t.state = "inProgress"}
NumRunning(bag) ==
  LET R == Running(bag)
  IN  BagCardinality([t \in R |-> bag[t]])

(***************************************************************************)
(* Table operations of the handlers.                                       *)
(***************************************************************************)
Terminal(status) == status \in {"complete", "error"}

\* mutant: the insert loop stops one clip id short
NewClipRows_DropLast(promptDbId, clips) ==
  [k \in 1..(IF Len(clips) = 0 THEN 0 ELSE Len(clips) - 1) |->
     [suno_prompt |-> promptDbId, suno_clip_id |-> clips[k],
      status |-> "submitted", result |-> <<>>]]

\* the rows saveSunoClipsToDb inserts for the clip ids of one response
NewClipRows(promptDbId, clips) ==
  [k \in 1..Len(clips) |->
     [suno_prompt |-> promptDbId, suno_clip_id |-> clips[k],
      status |-> "submitted", result |-> <<>>]]

NewPromptRow(args, promptId) ==
  [suno_request_payload |-> args, suno_prompt_id |-> promptId]

\* .take(n) of a query result
TakeSeq(s, n) == SubSeq(s, 1, IF Len(s) < n THEN Len(s) ELSE n)

NeedsPoll(row) == ~(row.status = "complete") /\ ~(row.status = "error")

\* mutant: the query without .take(10)
getSunoClipIdsToPoll_NoTake(table) ==
  LET objs == SelectSeq(table, NeedsPoll)
  IN  [k \in 1..Len(objs) |-> objs[k].suno_clip_id]

getSunoClipIdsToPoll(table) ==
  LET objs == TakeSeq(SelectSeq(table, NeedsPoll), BatchLimit)
  IN  [k \in 1..Len(objs) |-> objs[k].suno_clip_id]

\* mutant: .first() without the filter on suno_clip_id
FirstClip_NoFilter(table, clipId) ==
  IF Len(table) = 0 THEN 0 ELSE 1

\* .filter(suno_clip_id = clipId).first(): index of the row, 0 when there is none
FirstClip(table, clipId) ==
  LET hits == {k \in 1..Len(table) : table[k].suno_clip_id = clipId}
  IN  IF hits = {} THEN 0 ELSE CHOOSE k \in hits : \A j \in hits : k <= j

\* mutant: the row is replaced by a document built from the report
\* (ctx.db.replace), which loses the reference to the owning prompt
PatchClip_Replace(table, dbId, body) ==
  [table EXCEPT ![dbId] = [suno_prompt |-> 0, suno_clip_id |-> body.id,
                           status |-> body.status, result |-> <<body>>]]

\* mutant: a clip that is already 'complete' or 'error' is left alone
PatchClip_KeepTerminal(table, dbId, body) ==
  IF table[dbId].status \in {"complete", "error"} THEN table
  ELSE [table EXCEPT ![dbId] = [@ EXCEPT !.result = <<body>>, !.status = body.status]]

\* mutant: the patch writes the result and not the status
PatchClip_ResultOnly(table, dbId, body) ==
  [table EXCEPT ![dbId] = [@ EXCEPT !.result = <<body>>]]

\* ctx.db.patch(dbId, {result: body, status: body.status})
PatchClip(table, dbId, body) ==
  [table EXCEPT ![dbId] = [@ EXCEPT !.result = <<body>>, !.status = body.status]]

\* mutant: the test of completedTime is missing
isPollScheduled_IgnoresCompletion(registry) ==
  \E task \in BagToSet(registry) : task.name = "pollSunoClips"

\* mutant: only tasks that have not started count as scheduled
isPollScheduled_PendingOnly(registry) ==
  \E task \in BagToSet(registry) :
     task.name = "pollSunoClips" /\ task.state = "pending"

isPollScheduled(registry) ==
  \E task \in BagToSet(registry) :
     task.name = "pollSunoClips" /\ ~completedTime(task)

\* mutant: the arm mutation enqueues a poll task without looking at the registry
schedulePollSunoClips_Unconditional(registry) ==
  Put(registry, NewTask("pollSunoClips", ArmDelay))

\* the registry after the body of schedulePollSunoClips
schedulePollSunoClips(registry) ==
  IF ~isPollScheduled(registry)
  THEN Put(registry, NewTask("pollSunoClips", ArmDelay))
  ELSE registry

\* mutant: json.id is passed on without being required
GenerateAccepted_IdNotRequired(resp) ==
  resp.kind = "json" /\ resp.hasClips

\* does generateSunoAudio get as far as a valid saveSunoClipsToDb call
GenerateAccepted(resp) ==
  resp.kind = "json" /\ resp.hasClips /\ resp.hasId

(***************************************************************************)
(* Actions.                                                                *)
(***************************************************************************)
Init ==
  /\ suno_prompts = <<>>
  /\ suno_clips = <<>>
  /\ tasks = EmptyBag
  /\ genOutcome = "none"
  /\ sinceFeed = PollInterval

\* generateSunoAudio with the provider answering resp; on success the
\* mutation saveSunoClipsToDb commits the prompt, its clips and the arm request
generateSunoAudio(args, resp) ==
  /\ IF GenerateAccepted(resp)
     THEN /\ suno_prompts' = Append(suno_prompts, NewPromptRow(args, resp.id))
          /\ suno_clips' = suno_clips \o NewClipRows(Len(suno_prompts) + 1, resp.clips)
          /\ tasks' = Put(tasks, NewTask("schedulePollSunoClips", ArmDelay))
          /\ genOutcome' = "ok"
     ELSE /\ genOutcome' = "rejected"
          /\ UNCHANGED <<suno_prompts, suno_clips, tasks>>

\* the client's "Poll" button: schedulePollSunoClips called directly
PollNow ==
  /\ tasks' = schedulePollSunoClips(tasks)
  /\ UNCHANGED <<suno_prompts, suno_clips, genOutcome>>

\* the scheduler runs a pending schedulePollSunoClips task (a mutation: its
\* effect and its completion commit together)
RunSchedulePoll(t) ==
  /\ BagIn(t, tasks)
  /\ t.name = "schedulePollSunoClips" /\ t.state = "pending"
  /\ tasks' = Finish(schedulePollSunoClips(tasks), t)
  /\ UNCHANGED <<suno_prompts, suno_clips, genOutcome>>

\* mutant: the test for an empty cohort is missing
AfterQuery_NoEmptyCheck(run, clipsToUpdate) ==
  [run EXCEPT !.clipsToUpdate = clipsToUpdate, !.pc = "fetch"]

\* pollSunoClips after its query: return on an empty cohort, else go on to
\* the feed request
AfterQuery(run, clipsToUpdate) ==
  IF Len(clipsToUpdate) = 0
  THEN Ended(run, "returned", "none")
  ELSE [run EXCEPT !.clipsToUpdate = clipsToUpdate, !.pc = "fetch"]

IsPollAt(t, pcs) ==
  /\ BagIn(t, tasks)
  /\ t.name = "pollSunoClips" /\ t.state = "inProgress" /\ t.pc \in pcs

\* the scheduler starts a pending pollSunoClips task; the handler computes
\* its cohort and returns at once when it is empty
PollStart(t) ==
  /\ BagIn(t, tasks)
  /\ t.name = "pollSunoClips" /\ t.state = "pending"
  /\ NumRunning(tasks) < MaxRunning
  /\ tasks' = Put(Take(tasks, t),
                  AfterQuery([t EXCEPT !.state = "inProgress", !.delay = 0],
                             getSunoClipIdsToPoll(suno_clips)))
  /\ UNCHANGED <<suno_prompts, suno_clips, genOutcome>>

\* the feed request and its answer
PollFetch(t, resp) ==
  /\ IsPollAt(t, {"fetch"})
  /\ LET sent == [t EXCEPT !.requests = t.requests + 1]
     IN  tasks' = Put(Take(tasks, t),
                      IF resp.kind # "json" THEN Ended(sent, "threw", "fetch failed")
                      ELSE IF ~resp.hasClips THEN Ended(sent, "threw", "Suno API error")
                      ELSE [sent EXCEPT !.clipData = resp, !.pc = "loop"])
  /\ UNCHANGED <<suno_prompts, suno_clips, genOutcome>>

\* one iteration of the for loop: updateSunoClipStatus on the next report
\* where clip is clipData.clips[i]
PollUpdate(t, clip) ==
  /\ IsPollAt(t, {"loop"})
  /\ t.i <= t.clipData.len
  /\ LET dbId == FirstClip(suno_clips, clip.id)
     IN  IF dbId = 0
         THEN /\ tasks' = Put(Take(tasks, t), Ended(t, "threw", "Clip not found"))
              /\ UNCHANGED suno_clips
         ELSE /\ suno_clips' = PatchClip(suno_clips, dbId, clip)
              /\ tasks' = Put(Take(tasks, t),
                              [t EXCEPT !.i = t.i + 1,
                                        !.reported[clip.id] = <<clip>>])
  /\ UNCHANGED <<suno_prompts, genOutcome>>

\* after the loop: runAfter(10000, pollSunoClips), then the handler returns
PollRearm(t) ==
  /\ IsPollAt(t, {"loop"})
  /\ t.i > t.clipData.len
  /\ tasks' = Put(Put(Take(tasks, t), Ended(t, "returned", "none")),
                  NewTask("pollSunoClips", PollInterval))
  /\ UNCHANGED <<suno_prompts, suno_clips, genOutcome>>

\* the platform records the end of the action: completedTime is set
PollComplete(t) ==
  /\ IsPollAt(t, {"returned", "threw"})
  /\ tasks' = Finish(tasks, t)
  /\ UNCHANGED <<suno_prompts, suno_clips, genOutcome>>

Next ==
  \/ /\ Len(suno_prompts) < Len(PromptIds)
     /\ \E args \in Payloads,
           resp \in GenerateResponses(PromptIds[Len(suno_prompts) + 1],
                                      MaxRows - Len(suno_clips)) :
          generateSunoAudio(args, resp)
     /\ UNCHANGED sinceFeed
  \/ /\ PollNow
     /\ UNCHANGED sinceFeed
  \/ /\ \E t \in BagToSet(tasks) : RunSchedulePoll(t)
     /\ UNCHANGED sinceFeed
  \/ /\ \E t \in BagToSet(tasks) : PollStart(t)
     /\ UNCHANGED sinceFeed
  \/ /\ \E t \in BagToSet(tasks), resp \in FeedResponses : PollFetch(t, resp)
     /\ UNCHANGED sinceFeed
  \/ /\ \E t \in BagToSet(tasks), clip \in Reports : PollUpdate(t, clip)
     /\ UNCHANGED sinceFeed
  \/ /\ \E t \in BagToSet(tasks) : PollRearm(t)
     /\ UNCHANGED sinceFeed
  \/ /\ \E t \in BagToSet(tasks) : PollComplete(t)
     /\ UNCHANGED sinceFeed

Spec == Init /\ [][Next]_vars

(***************************************************************************)
(* The large-batch scenario: the same handlers, a provider that answers    *)
(* the one submission with BulkRows clip ids and whose feed reports only   *)
(* the first or the last clip of the request, as queued or complete.       *)
(***************************************************************************)
BulkGenerateResponse ==
  [kind |-> "json", hasId |-> TRUE, hasClips |-> TRUE,
   id |-> PromptIds[1], clips |-> BulkClips]

BulkFeedResponses == {r \in FeedResponses : r.kind = "json" /\ r.hasClips}

BulkReports(t) ==
  IF t.clipsToUpdate = <<>> THEN {}
  ELSE [id : {t.clipsToUpdate[1], t.clipsToUpdate[Len(t.clipsToUpdate)]},
        status : {"queued", "complete"}, title : Titles]

NextBulk ==
  \/ /\ Len(suno_prompts) = 0
     /\ \E args \in Payloads : generateSunoAudio(args, BulkGenerateResponse)
     /\ UNCHANGED sinceFeed
  \/ /\ PollNow
     /\ UNCHANGED sinceFeed
  \/ /\ \E t \in BagToSet(tasks) : RunSchedulePoll(t)
     /\ UNCHANGED sinceFeed
  \/ /\ \E t \in BagToSet(tasks) : PollStart(t)
     /\ UNCHANGED sinceFeed
  \/ /\ \E t \in BagToSet(tasks), resp \in BulkFeedResponses : PollFetch(t, resp)
     /\ UNCHANGED sinceFeed
  \/ /\ \E t \in BagToSet(tasks) : \E clip \in BulkReports(t) : PollUpdate(t, clip)
     /\ UNCHANGED sinceFeed
  \/ /\ \E t \in BagToSet(tasks) : PollRearm(t)
     /\ UNCHANGED sinceFeed
  \/ /\ \E t \in BagToSet(tasks) : PollComplete(t)
     /\ UNCHANGED sinceFeed

SpecBulk == Init /\ [][NextBulk]_vars

(***************************************************************************)
(* Restrictions of the provider's feed. In SpecRequestedOnly every report  *)
(* of a feed response names a clip id of that cycle's request (the ids     *)
(* query parameter); in SpecWellBehaved the feed is, in addition, always   *)
(* answered with a response that carries the clip collection.              *)
(***************************************************************************)
\* the ids query parameter of a cycle's feed request
Requested(t) == {t.clipsToUpdate[k] : k \in 1..Len(t.clipsToUpdate)}

RequestedReports(t) == {clip \in Reports : clip.id \in Requested(t)}

WellFormedFeedResponses == {r \in FeedResponses : r.kind = "json" /\ r.hasClips}

NextRequestedOnly ==
  \/ /\ Len(suno_prompts) < Len(PromptIds)
     /\ \E args \in Payloads,
           resp \in GenerateResponses(PromptIds[Len(suno_prompts) + 1],
                                      MaxRows - Len(suno_clips)) :
          generateSunoAudio(args, resp)
     /\ UNCHANGED sinceFeed
  \/ /\ PollNow
     /\ UNCHANGED sinceFeed
  \/ /\ \E t \in BagToSet(tasks) : RunSchedulePoll(t)
     /\ UNCHANGED sinceFeed
  \/ /\ \E t \in BagToSet(tasks) : PollStart(t)
     /\ UNCHANGED sinceFeed
  \/ /\ \E t \in BagToSet(tasks), resp \in FeedResponses : PollFetch(t, resp)
     /\ UNCHANGED sinceFeed
  \/ /\ \E t \in BagToSet(tasks) : \E clip \in RequestedReports(t) : PollUpdate(t, clip)
     /\ UNCHANGED sinceFeed
  \/ /\ \E t \in BagToSet(tasks) : PollRearm(t)
     /\ UNCHANGED sinceFeed
  \/ /\ \E t \in BagToSet(tasks) : PollComplete(t)
     /\ UNCHANGED sinceFeed

SpecRequestedOnly == Init /\ [][NextRequestedOnly]_vars

NextWellBehaved ==
  \/ /\ Len(suno_prompts) < Len(PromptIds)
     /\ \E args \in Payloads,
           resp \in GenerateResponses(PromptIds[Len(suno_prompts) + 1],
                                      MaxRows - Len(suno_clips)) :
          generateSunoAudio(args, resp)
     /\ UNCHANGED sinceFeed
  \/ /\ PollNow
     /\ UNCHANGED sinceFeed
  \/ /\ \E t \in BagToSet(tasks) : RunSchedulePoll(t)
     /\ UNCHANGED sinceFeed
  \/ /\ \E t \in BagToSet(tasks) : PollStart(t)
     /\ UNCHANGED sinceFeed
  \/ /\ \E t \in BagToSet(tasks), resp \in WellFormedFeedResponses : PollFetch(t, resp)
     /\ UNCHANGED sinceFeed
  \/ /\ \E t \in BagToSet(tasks) : \E clip \in RequestedReports(t) : PollUpdate(t, clip)
     /\ UNCHANGED sinceFeed
  \/ /\ \E t \in BagToSet(tasks) : PollRearm(t)
     /\ UNCHANGED sinceFeed
  \/ /\ \E t \in BagToSet(tasks) : PollComplete(t)
     /\ UNCHANGED sinceFeed

SpecWellBehaved == Init /\ [][NextWellBehaved]_vars

(***************************************************************************)
(* The cooperative provider and fair scheduling. Every feed response       *)
(* carries one report per id of the request, in the order of the request,  *)
(* each 'complete' or 'error'. The scheduler runs every task that is       *)
(* pending and every handler goes on to its next step: weak fairness on    *)
(* each step of a scheduled function. Submissions and poll-now requests    *)
(* are the client's and are not forced.                                    *)
(***************************************************************************)
CooperativeFeedResponse(t) ==
  [kind |-> "json", hasClips |-> TRUE, len |-> Len(t.clipsToUpdate)]

CooperativeReports(t) ==
  IF t.i <= Len(t.clipsToUpdate)
  THEN [id : {t.clipsToUpdate[t.i]}, status : {"complete", "error"}, title : Titles]
  ELSE {}

ClientSubmits ==
  /\ Len(suno_prompts) < Len(PromptIds)
  /\ \E args \in Payloads,
        resp \in GenerateResponses(PromptIds[Len(suno_prompts) + 1],
                                   MaxRows - Len(suno_clips)) :
       generateSunoAudio(args, resp)
  /\ UNCHANGED sinceFeed

ClientPollsNow == PollNow /\ UNCHANGED sinceFeed

ArmRuns == (\E t \in BagToSet(tasks) : RunSchedulePoll(t)) /\ UNCHANGED sinceFeed

CycleStarts == (\E t \in BagToSet(tasks) : PollStart(t)) /\ UNCHANGED sinceFeed

CycleFetches ==
  /\ \E t \in BagToSet(tasks) : PollFetch(t, CooperativeFeedResponse(t))
  /\ UNCHANGED sinceFeed

CycleUpdates ==
  /\ \E t \in BagToSet(tasks) : \E clip \in CooperativeReports(t) : PollUpdate(t, clip)
  /\ UNCHANGED sinceFeed

CycleRearms == (\E t \in BagToSet(tasks) : PollRearm(t)) /\ UNCHANGED sinceFeed

CycleCompletes == (\E t \in BagToSet(tasks) : PollComplete(t)) /\ UNCHANGED sinceFeed

NextCooperative ==
  \/ ClientSubmits
  \/ ClientPollsNow
  \/ ArmRuns
  \/ CycleStarts
  \/ CycleFetches
  \/ CycleUpdates
  \/ CycleRearms
  \/ CycleCompletes

FairScheduling ==
  /\ WF_vars(ArmRuns)
  /\ WF_vars(CycleStarts)
  /\ WF_vars(CycleFetches)
  /\ WF_vars(CycleUpdates)
  /\ WF_vars(CycleRearms)
  /\ WF_vars(CycleCompletes)

SpecCooperative == Init /\ [][NextCooperative]_vars /\ FairScheduling

(***************************************************************************)
(* The large-batch scenario under fair scheduling: the provider stays free *)
(* to report a clip as queued again and again or to omit it.               *)
(***************************************************************************)
BulkFetches ==
  /\ \E t \in BagToSet(tasks), resp \in BulkFeedResponses : PollFetch(t, resp)
  /\ UNCHANGED sinceFeed

BulkUpdates ==
  /\ \E t \in BagToSet(tasks) : \E clip \in BulkReports(t) : PollUpdate(t, clip)
  /\ UNCHANGED sinceFeed

FairBulkScheduling ==
  /\ WF_vars(ArmRuns)
  /\ WF_vars(CycleStarts)
  /\ WF_vars(BulkFetches)
  /\ WF_vars(BulkUpdates)
  /\ WF_vars(CycleRearms)
  /\ WF_vars(CycleCompletes)

SpecBulkFair == Init /\ [][NextBulk]_vars /\ FairBulkScheduling

(***************************************************************************)
(* Time. The specifications above allow every interleaving whatever the    *)
(* delays and leave the clock alone. SpecTimed adds the passing of time:   *)
(* a task enqueued by runAfter(delay, ...) starts no earlier than delay ms *)
(* after it was enqueued, and sinceFeed is the time since the latest feed  *)
(* request. Time passes in ticks of TickLen ms; handler steps take none.   *)
(***************************************************************************)
TickLen == PollInterval \div TicksPerInterval

\* a registry record after d ms: the remaining delay of a pending task shrinks
Aged(t, d) ==
  IF t.state = "pending"
  THEN [t EXCEPT !.delay = IF t.delay > d THEN t.delay - d ELSE 0]
  ELSE t

Tick ==
  /\ \/ sinceFeed < PollInterval
     \/ \E t \in BagToSet(tasks) : t.state = "pending" /\ t.delay > 0
  /\ sinceFeed' = IF sinceFeed + TickLen < PollInterval
                  THEN sinceFeed + TickLen ELSE PollInterval
  /\ LET AgedByTick(t) == Aged(t, TickLen)
     IN  tasks' = BagOfAll(AgedByTick, tasks)
  /\ UNCHANGED <<suno_prompts, suno_clips, genOutcome>>

NextTimed ==
  \/ /\ Len(suno_prompts) < Len(PromptIds)
     /\ \E args \in Payloads,
           resp \in GenerateResponses(PromptIds[Len(suno_prompts) + 1],
                                      MaxRows - Len(suno_clips)) :
          generateSunoAudio(args, resp)
     /\ UNCHANGED sinceFeed
  \/ /\ PollNow
     /\ UNCHANGED sinceFeed
  \/ /\ \E t \in BagToSet(tasks) : t.delay = 0 /\ RunSchedulePoll(t)
     /\ UNCHANGED sinceFeed
  \/ /\ \E t \in BagToSet(tasks) : t.delay = 0 /\ PollStart(t)
     /\ UNCHANGED sinceFeed
  \/ /\ \E t \in BagToSet(tasks), resp \in FeedResponses : PollFetch(t, resp)
     /\ sinceFeed' = 0
  \/ /\ \E t \in BagToSet(tasks), clip \in Reports : PollUpdate(t, clip)
     /\ UNCHANGED sinceFeed
  \/ /\ \E t \in BagToSet(tasks) : PollRearm(t)
     /\ UNCHANGED sinceFeed
  \/ /\ \E t \in BagToSet(tasks) : PollComplete(t)
     /\ UNCHANGED sinceFeed
  \/ Tick

SpecTimed == Init /\ [][NextTimed]_vars

(***************************************************************************)
(* Properties.                                                             *)
(***************************************************************************)
GenerateResponsesByPrompt ==
  [k \in 1..Len(PromptIds) |-> GenerateResponses(PromptIds[k], MaxRows)]

\* the answers the provider can give to the next submission: they carry the
\* next prompt id; none once every prompt id has been assigned
NextGenerateResponses ==
  IF Len(suno_prompts) < Len(PromptIds)
  THEN GenerateResponsesByPrompt[Len(suno_prompts) + 1] ELSE {}

\* the provider's answer makes the submission fail: the call failed, or the
\* answer lacks the prompt id or the clip list
SubmissionFails(resp) ==
  resp.kind = "network_error" \/ ~resp.hasId \/ ~resp.hasClips

IsPrefix(s, t) == Len(s) <= Len(t) /\ SubSeq(t, 1, Len(s)) = s

\* C1: a successful submission whose response carries N clip ids adds exactly
\* one Prompt row and exactly N Clip rows, each 'submitted', without result,
\* carrying the response's ids in order and referencing the new Prompt row;
\* the rows that existed before are unchanged.
C1_SubmissionRows ==
  [][\A args \in Payloads, resp \in NextGenerateResponses :
       (~SubmissionFails(resp) /\ generateSunoAudio(args, resp)) =>
         /\ Len(suno_prompts') = Len(suno_prompts) + 1
         /\ IsPrefix(suno_prompts, suno_prompts')
         /\ Len(suno_clips') = Len(suno_clips) + Len(resp.clips)
         /\ IsPrefix(suno_clips, suno_clips')
         /\ \A k \in 1..Len(resp.clips) :
              LET row == suno_clips'[Len(suno_clips) + k]
              IN  /\ row.status = "submitted"
                  /\ row.result = <<>>
                  /\ row.suno_clip_id = resp.clips[k]
                  /\ row.suno_prompt = Len(suno_prompts')]_vars

\* a second prompt was submitted after the first prompt's clip had been
\* reconciled: the old row kept its result, the new row is 'submitted'
C1_Witness ==
  /\ Len(suno_prompts) = 2 /\ Len(suno_clips) = 2
  /\ suno_clips[1].suno_prompt = 1 /\ suno_clips[1].status = "complete"
  /\ suno_clips[1].result # <<>>
  /\ suno_clips[2].suno_prompt = 2 /\ suno_clips[2].status = "submitted"
  /\ suno_clips[2].result = <<>>

\* C2: a failed submission writes no Prompt row and no Clip row and leaves
\* the store unchanged, and the caller sees a rejection; a Prompt row and its
\* Clip rows are only ever added together, in one step: whenever a table
\* grows, exactly one Prompt row is added and every added Clip row references
\* it, and every Clip row references an existing Prompt row.
C2_AllOrNothing ==
  /\ [](\A k \in 1..Len(suno_clips) :
          suno_clips[k].suno_prompt \in 1..Len(suno_prompts))
  /\ [][/\ \A args \in Payloads, resp \in NextGenerateResponses :
             (SubmissionFails(resp) /\ generateSunoAudio(args, resp)) =>
               /\ UNCHANGED <<suno_prompts, suno_clips, tasks>>
               /\ genOutcome' = "rejected"
        /\ (Len(suno_prompts') # Len(suno_prompts) \/ Len(suno_clips') # Len(suno_clips)) =>
               /\ Len(suno_prompts') = Len(suno_prompts) + 1
               /\ Len(suno_clips') >= Len(suno_clips)
               /\ genOutcome' = "ok"
               /\ \A k \in (Len(suno_clips) + 1)..Len(suno_clips') :
                    suno_clips'[k].suno_prompt = Len(suno_prompts')]_vars

\* a submission was rejected after an earlier one had been stored
C2_Witness ==
  /\ genOutcome = "rejected"
  /\ Len(suno_prompts) = 1 /\ Len(suno_clips) = 2

\* C3: a Clip row's status or result changes only in a step that applies
\* updateSunoClipStatus with a report whose id is that row's external clip
\* id; every other row keeps its status and result.
C3_OnlyNamedClipChanges ==
  [][\A k \in 1..Len(suno_clips) :
       (k \in 1..Len(suno_clips') /\
        (suno_clips'[k].status # suno_clips[k].status \/
         suno_clips'[k].result # suno_clips[k].result)) =>
          \E t \in BagToSet(tasks), clip \in Reports :
             /\ PollUpdate(t, clip)
             /\ clip.id = suno_clips[k].suno_clip_id]_vars

\* a cycle polled c1 and c2, the feed reported c1 complete and omitted c2:
\* c1 is complete, c2 is still 'submitted'
C3_Witness ==
  \E t \in BagToSet(tasks) :
     /\ t.name = "pollSunoClips" /\ t.pc = "loop" /\ t.i > t.clipData.len
     /\ t.clipsToUpdate = <<"c1", "c2">>
     /\ t.reported["c1"] # <<>> /\ t.reported["c2"] = <<>>
     /\ suno_clips[1].status = "complete" /\ suno_clips[1].result = t.reported["c1"]
     /\ suno_clips[2].status = "submitted" /\ suno_clips[2].result = <<>>

Count(seq, P(_)) == Cardinality({k \in 1..Len(seq) : P(seq[k])})

SubBagOf(bag, P(_)) ==
  LET S == {t \in BagToSet(bag) : P(t)} IN [t \in S |-> bag[t]]

\* a pollSunoClips task the platform has not recorded as completed
UncompletedPoll(t) == t.name = "pollSunoClips" /\ t.state # "completed"

\* a pollSunoClips task that is armed, or running with its handler not yet
\* returned or thrown
LivePoll(t) ==
  /\ t.name = "pollSunoClips"
  /\ \/ t.state = "pending"
     \/ t.state = "inProgress" /\ t.pc \in {"start", "fetch", "loop"}

\* C5: schedulePollSunoClips, called by the client or run as a scheduled
\* task, enqueues nothing and leaves the outstanding poll tasks as they are
\* when a poll task that has not completed is outstanding, and enqueues
\* exactly one new poll task when none is; invoking it again right after
\* changes nothing.
C5_IdempotentArm ==
  [][(PollNow \/ \E t \in BagToSet(tasks) : RunSchedulePoll(t)) =>
       /\ IF BagCardinality(SubBagOf(tasks, UncompletedPoll)) > 0
          THEN SubBagOf(tasks', UncompletedPoll) = SubBagOf(tasks, UncompletedPoll)
          ELSE SubBagOf(tasks', UncompletedPoll) =
                 SetToBag({NewTask("pollSunoClips", ArmDelay)})
       /\ schedulePollSunoClips(tasks') = tasks']_vars

\* the arm request of a second submission ran while the cycle polling the
\* first prompt's clip was still in flight, and enqueued nothing
C5_Witness ==
  /\ Len(suno_prompts) = 2 /\ Len(suno_clips) = 2
  /\ suno_clips[2].suno_prompt = 2
  /\ \A t \in BagToSet(tasks) : t.name = "schedulePollSunoClips" => t.state = "completed"
  /\ BagCardinality(SubBagOf(tasks, UncompletedPoll)) = 1
  /\ \E t \in BagToSet(tasks) :
        t.name = "pollSunoClips" /\ t.pc = "fetch" /\ Len(t.clipsToUpdate) = 1

\* C6 as stated: at most one pollSunoClips task that has not completed is
\* outstanding in every reachable state.
C6_AtMostOneUncompletedPoll ==
  BagCardinality(SubBagOf(tasks, UncompletedPoll)) <= 1

\* C6 as amended: at most one pollSunoClips task is armed or still executing
\* its handler; any further task that has not completed is a handler that
\* has already returned or thrown and only awaits its completion record.
C6_AtMostOneLivePoll ==
  BagCardinality(SubBagOf(tasks, LivePoll)) <= 1

\* a cycle has re-armed and not yet completed: two uncompleted poll tasks,
\* one of them live
C6_Witness ==
  /\ BagCardinality(SubBagOf(tasks, UncompletedPoll)) = 2
  /\ BagCardinality(SubBagOf(tasks, LivePoll)) = 1
  /\ \E t \in BagToSet(tasks) :
        t.name = "pollSunoClips" /\ t.state = "inProgress" /\ t.pc = "returned"
  /\ \E t \in BagToSet(tasks) :
        t.name = "pollSunoClips" /\ t.state = "pending" /\ t.delay = PollInterval

\* C7: a poll cycle that finds no clip pending issues no feed request,
\* changes no Clip row and enqueues nothing: its handler has returned with
\* zero requests made, and no poll task is armed or executing afterwards.
C7_EmptyCohortStops ==
  [][\A t \in BagToSet(tasks) :
       (PollStart(t) /\ \A k \in 1..Len(suno_clips) : Terminal(suno_clips[k].status)) =>
          /\ suno_clips' = suno_clips
          /\ BagCardinality(tasks') = BagCardinality(tasks)
          /\ BagCardinality(SubBagOf(tasks', LivePoll)) = 0
          /\ \E e \in BagToSet(tasks') :
                /\ e.name = "pollSunoClips" /\ e.state = "inProgress"
                /\ e.pc = "returned" /\ e.requests = 0]_vars

\* every clip is terminal and the cycle that found the cohort empty has
\* returned without a request; nothing is armed
C7_Witness ==
  /\ Len(suno_clips) = 2
  /\ \A k \in 1..Len(suno_clips) : Terminal(suno_clips[k].status)
  /\ BagCardinality(SubBagOf(tasks, LivePoll)) = 0
  /\ \E e \in BagToSet(tasks) :
        /\ e.name = "pollSunoClips" /\ e.state = "inProgress"
        /\ e.pc = "returned" /\ e.requests = 0

\* C8 as stated: a feed response without the clip collection updates no Clip
\* row, and when the failed cycle has ended a next poll task is outstanding.
C8_MalformedFeedRearms ==
  [][/\ \A t \in BagToSet(tasks), resp \in FeedResponses :
          (PollFetch(t, resp) /\ resp.kind = "json" /\ ~resp.hasClips) =>
             suno_clips' = suno_clips
     /\ \A t \in BagToSet(tasks) :
          (PollComplete(t) /\ t.error = "Suno API error") =>
             BagCardinality(SubBagOf(tasks', UncompletedPoll)) >= 1]_vars

\* C9 as stated: a report whose id matches no Clip row is skipped and the
\* loop goes on to the next report of the response.
C9_UnknownReportSkipped ==
  [][\A t \in BagToSet(tasks), clip \in Reports :
       (PollUpdate(t, clip) /\
        \A k \in 1..Len(suno_clips) : suno_clips[k].suno_clip_id # clip.id) =>
          /\ suno_clips' = suno_clips
          /\ \E u \in BagToSet(tasks') :
                /\ u.name = "pollSunoClips" /\ u.pc = "loop"
                /\ u.i = t.i + 1 /\ u.clipsToUpdate = t.clipsToUpdate]_vars

\* C10 as stated: when a cycle has gone through a feed response that
\* reported every clip of its cohort as 'complete', every clip that was
\* pending has status 'complete' and carries the reported result.
C10_RoundTrip ==
  \A t \in BagToSet(tasks) :
     (/\ t.name = "pollSunoClips" /\ t.pc = "loop" /\ t.i > t.clipData.len
      /\ \A k \in 1..Len(t.clipsToUpdate) :
           /\ t.reported[t.clipsToUpdate[k]] # <<>>
           /\ t.reported[t.clipsToUpdate[k]][1].status = "complete") =>
        \A j \in 1..Len(suno_clips) :
           (\E k \in 1..Len(t.clipsToUpdate) :
               t.clipsToUpdate[k] = suno_clips[j].suno_clip_id) =>
             /\ suno_clips[j].status = "complete"
             /\ suno_clips[j].result = t.reported[suno_clips[j].suno_clip_id]

\* no pollSunoClips task is armed or running and no schedulePollSunoClips
\* task is waiting to run
LoopIdle ==
  /\ BagCardinality(SubBagOf(tasks, UncompletedPoll)) = 0
  /\ \A t \in BagToSet(tasks) :
        t.name = "schedulePollSunoClips" => t.state = "completed"

\* C11 as stated: in every reachable state in which no pollSunoClips task is
\* outstanding and no schedulePollSunoClips invocation is pending, every
\* Clip row is 'complete' or 'error'.
C11_IdleOnlyWhenDone ==
  LoopIdle => \A k \in 1..Len(suno_clips) : Terminal(suno_clips[k].status)

\* C12 as stated: no two Clip rows carry the same external clip id.
C12_UniqueClipIds ==
  \A j, k \in 1..Len(suno_clips) :
     suno_clips[j].suno_clip_id = suno_clips[k].suno_clip_id => j = k

\* C13: no step changes or removes a Prompt row, and no step removes a Clip
\* row or changes its external clip id or its owning prompt reference: the
\* prompt table only grows at its end, and every Clip row stays at its
\* place with the same suno_clip_id and suno_prompt.
C13_RowsKeepIdentity ==
  [][/\ IsPrefix(suno_prompts, suno_prompts')
     /\ Len(suno_clips') >= Len(suno_clips)
     /\ \A k \in 1..Len(suno_clips) :
          /\ suno_clips'[k].suno_clip_id = suno_clips[k].suno_clip_id
          /\ suno_clips'[k].suno_prompt = suno_clips[k].suno_prompt]_vars

\* two prompts are stored and the clip of each has been reconciled; each
\* clip still carries its id and references its own prompt
C13_Witness ==
  /\ Len(suno_prompts) = 2 /\ Len(suno_clips) = 2
  /\ suno_prompts[1].suno_prompt_id = "p1" /\ suno_prompts[2].suno_prompt_id = "p2"
  /\ suno_clips[1].suno_clip_id = "c1" /\ suno_clips[1].suno_prompt = 1
  /\ suno_clips[2].suno_clip_id = "c2" /\ suno_clips[2].suno_prompt = 2
  /\ suno_clips[1].result # <<>> /\ suno_clips[2].result # <<>>

\* C14: every report that names an existing clip is applied whatever the
\* clip's current status: after the updateSunoClipStatus step the row the
\* lookup finds (the first row carrying the report's id) has the report's
\* status and the report as its result, also when the row was 'complete' or
\* 'error' before and the report's status is an earlier one.
C14_ReportAlwaysApplied ==
  [][\A t \in {u \in BagToSet(tasks) : u.pc = "loop"}, clip \in Reports :
       PollUpdate(t, clip) =>
         \A k \in 1..Len(suno_clips) :
            (/\ suno_clips[k].suno_clip_id = clip.id
             /\ \A j \in 1..(k - 1) : suno_clips[j].suno_clip_id # clip.id) =>
               /\ suno_clips'[k].status = clip.status
               /\ suno_clips'[k].result = <<clip>>]_vars

\* c1 and c2 belong to one prompt; a cycle whose cohort was c2 alone (c1 was
\* terminal when it ran its query) has applied a 'queued' report for c1:
\* c1 is back to 'queued'
C14_Witness ==
  /\ Len(suno_prompts) = 1 /\ Len(suno_clips) = 2
  /\ suno_clips[1].suno_clip_id = "c1" /\ suno_clips[2].suno_clip_id = "c2"
  /\ \E t \in BagToSet(tasks) :
        /\ t.name = "pollSunoClips" /\ t.pc = "loop"
        /\ t.clipsToUpdate = <<"c2">>
        /\ t.reported["c1"] # <<>>
        /\ t.reported["c1"][1].status = "queued"
        /\ suno_clips[1].status = "queued"
        /\ suno_clips[1].result = t.reported["c1"]

\* C15: in every reachable state each Clip row either has no result and
\* status 'submitted', or has a result and its status equals the status
\* field of that result.
C15_StatusMatchesResult ==
  \A k \in 1..Len(suno_clips) :
     \/ suno_clips[k].result = <<>> /\ suno_clips[k].status = "submitted"
     \/ /\ suno_clips[k].result # <<>>
        /\ suno_clips[k].status = suno_clips[k].result[1].status

\* one clip carries an 'error' report as result and has status 'error',
\* the other has never been reported and is 'submitted' without result
C15_Witness ==
  /\ Len(suno_clips) = 2
  /\ suno_clips[1].result # <<>> /\ suno_clips[1].result[1].status = "error"
  /\ suno_clips[1].status = "error"
  /\ suno_clips[2].result = <<>> /\ suno_clips[2].status = "submitted"

\* a pollSunoClips handler between its cohort query and its return or throw
ExecutingPoll(t) ==
  t.name = "pollSunoClips" /\ t.state = "inProgress" /\ t.pc \in {"fetch", "loop"}

\* C16: in no reachable state are two pollSunoClips handlers between their
\* cohort query and their return or throw, and no cycle starts (computes its
\* cohort) while another handler is in that stretch.
C16_CyclesDoNotOverlap ==
  /\ [](BagCardinality(SubBagOf(tasks, ExecutingPoll)) <= 1)
  /\ [][\A t \in BagToSet(tasks) :
          PollStart(t) => BagCardinality(SubBagOf(tasks, ExecutingPoll)) = 0]_vars

\* the successor of a cycle has started and sent its feed request while the
\* predecessor, whose handler has returned, still awaits its completion record
C16_Witness ==
  /\ \E t \in BagToSet(tasks) :
        t.name = "pollSunoClips" /\ t.state = "inProgress" /\ t.pc = "returned"
  /\ \E t \in BagToSet(tasks) :
        /\ ExecutingPoll(t) /\ t.pc = "loop" /\ t.requests = 1

\* C17 as stated: every request to the feed endpoint is issued at least
\* PollInterval ms after the previous one.
C17_MinimumInterCycleDelay ==
  [][\A t \in BagToSet(tasks), resp \in FeedResponses :
       PollFetch(t, resp) => sinceFeed >= PollInterval]_vars

\* C20 as stated: when every report of every feed response names a clip id
\* of that cycle's request, a Clip row whose status is 'complete' or 'error'
\* keeps its status and its result in every step.
C20_TerminalStable ==
  [][\A k \in 1..Len(suno_clips) :
       Terminal(suno_clips[k].status) =>
         /\ suno_clips'[k].status = suno_clips[k].status
         /\ suno_clips'[k].result = suno_clips[k].result]_vars

\* C18 as stated: under fair scheduling and a provider that answers every
\* feed request with a well-formed response reporting every requested clip
\* as 'complete' or 'error', every stored clip eventually has status
\* 'complete' or 'error', and the loop is idle again and again.
C18_ClipsSettleAndLoopIdles ==
  /\ \A k \in 1..MaxRows :
        (Len(suno_clips) >= k) ~>
          (Len(suno_clips) >= k /\ Terminal(suno_clips[k].status))
  /\ []<>LoopIdle

\* the clip of row k is in the cohort of a cycle that has run its query
InSomeCohort(k) ==
  \E t \in BagToSet(tasks) :
     ExecutingPoll(t) /\ suno_clips[k].suno_clip_id \in Requested(t)

\* C19 as stated: while the loop keeps cycling (again and again a cycle
\* computes a cohort and goes on to its feed request), every clip that is
\* not 'complete' or 'error' is eventually in the cohort of some cycle, or
\* has become terminal.
C19_NoStarvation ==
  ([]<>(\E t \in BagToSet(tasks) : ExecutingPoll(t) /\ t.pc = "fetch")) =>
    \A k \in 1..BulkRows :
       (Len(suno_clips) >= k /\ ~Terminal(suno_clips[k].status)) ~>
         (/\ Len(suno_clips) >= k
          /\ Terminal(suno_clips[k].status) \/ InSomeCohort(k))

====
